---- MODULE Spec2Model ----
(***************************************************************************)
(* Model of the WHOIS lookup engine of src/src/main.py: the text helpers   *)
(* (domain clean-up, output parsing), run_whois_command with its external  *)
(* process, the four single-query tools and the bulk orchestrator          *)
(* whois_domains with its asyncio.Semaphore(5).                            *)
(*                                                                         *)
(* A Python str is a sequence of one-character strings.  A coroutine runs  *)
(* without interruption from one await to the next, so there is one action *)
(* per await point of a task.                                               *)
(***************************************************************************)
EXTENDS Integers, Sequences, FiniteSets, TLC

VARIABLES
    entry,      \* the tool that was called
    args,       \* its inputs: the domains list, or the one argument
    world,      \* what the external whois process may do in this run
    sem,        \* the value of asyncio.Semaphore(5)
    pc,         \* per task: the await point it is suspended at
    query,      \* per task: the string handed to run_whois_command
    proc,       \* per task: its external process (state, returncode)
    spawns,     \* per task: how many processes it has spawned
    result,     \* per task: the result dict of its lookup
    opc,        \* the called tool: "running" | "returned" | "raised"
    out,        \* the value the called tool returned
    lastDone,   \* the task that settled last so far (0: none has)
    cleanIn,    \* clean-up check: the raw text
    cleanOut,   \* clean-up check: the successive clean-ups of cleanIn
    parseIn,    \* parser check: the raw WHOIS text
    parseOut    \* parser check: the parsed_fields of parseIn

vars == <<entry, args, world, sem, pc, query, proc, spawns, result, opc, out,
          lastDone, cleanIn, cleanOut, parseIn, parseOut>>

(***************************************************************************)
(* Bounds of the model.                                                    *)
(***************************************************************************)
MaxDomains == 3
GateDomains == 6
MaxFrags == 3
MaxLines == 3

(***************************************************************************)
(* Program constants.                                                      *)
(***************************************************************************)
SemaphoreCap == 5
DefaultTimeout == 10

(***************************************************************************)
(* Python str operations.                                                  *)
(***************************************************************************)
Whitespace == {" ", "\t", "\n", "\r"}

UpperToLower ==
    ("A" :> "a") @@ ("B" :> "b") @@ ("C" :> "c") @@ ("D" :> "d") @@
    ("E" :> "e") @@ ("F" :> "f") @@ ("G" :> "g") @@ ("H" :> "h") @@
    ("I" :> "i") @@ ("J" :> "j") @@ ("K" :> "k") @@ ("L" :> "l") @@
    ("M" :> "m") @@ ("N" :> "n") @@ ("O" :> "o") @@ ("P" :> "p") @@
    ("Q" :> "q") @@ ("R" :> "r") @@ ("S" :> "s") @@ ("T" :> "t") @@
    ("U" :> "u") @@ ("V" :> "v") @@ ("W" :> "w") @@ ("X" :> "x") @@
    ("Y" :> "y") @@ ("Z" :> "z")

LowerToUpper ==
    [c \in {UpperToLower[u] : u \in DOMAIN UpperToLower} |->
        CHOOSE u \in DOMAIN UpperToLower : UpperToLower[u] = c]

Digit == <<"0", "1", "2", "3", "4", "5", "6", "7", "8", "9">>

\* s.lower()
Lower(s) ==
    [i \in 1..Len(s) |->
        IF s[i] \in DOMAIN UpperToLower THEN UpperToLower[s[i]] ELSE s[i]]

\* s.upper()
Upper(s) ==
    [i \in 1..Len(s) |->
        IF s[i] \in DOMAIN LowerToUpper THEN LowerToUpper[s[i]] ELSE s[i]]

RECURSIVE LStrip(_)
LStrip(s) ==
    IF Len(s) > 0 /\ Head(s) \in Whitespace THEN LStrip(Tail(s)) ELSE s

RECURSIVE RStrip(_)
RStrip(s) ==
    IF Len(s) > 0 /\ s[Len(s)] \in Whitespace
    THEN RStrip(SubSeq(s, 1, Len(s) - 1))
    ELSE s

\* s.strip()
Strip(s) == RStrip(LStrip(s))

\* s.startswith(p)
StartsWith(s, p) == Len(p) <= Len(s) /\ SubSeq(s, 1, Len(p)) = p

\* sub in s
Contains(s, sub) ==
    \E k \in 0..(Len(s) - Len(sub)) : SubSeq(s, k + 1, k + Len(sub)) = sub

\* s.replace(old, new): left to right, non-overlapping; old is not empty
RECURSIVE Replace(_, _, _)
Replace(s, old, new) ==
    IF Len(s) = 0 THEN <<>>
    ELSE IF StartsWith(s, old)
         THEN new \o Replace(SubSeq(s, Len(old) + 1, Len(s)), old, new)
         ELSE <<Head(s)>> \o Replace(Tail(s), old, new)

\* s.split(c)[0]: the text before the first c
RECURSIVE SplitFirst(_, _)
SplitFirst(s, c) ==
    IF Len(s) = 0 \/ Head(s) = c THEN <<>>
    ELSE <<Head(s)>> \o SplitFirst(Tail(s), c)

\* s.split(c, 1)[1]: the text after the first c (c occurs in s)
AfterFirst(s, c) == SubSeq(s, Len(SplitFirst(s, c)) + 2, Len(s))

\* s.split(c): the list of the pieces between the occurrences of c
RECURSIVE Split(_, _)
Split(s, c) ==
    IF ~Contains(s, <<c>>) THEN <<s>>
    ELSE <<SplitFirst(s, c)>> \o Split(AfterFirst(s, c), c)

\* s.isdigit()
IsDigit(s) ==
    Len(s) > 0 /\ \A i \in 1..Len(s) : \E d \in 1..10 : Digit[d] = s[i]

\* str(n) of an int n >= 0
RECURSIVE IntToStr(_)
IntToStr(n) ==
    IF n < 10 THEN <<Digit[n + 1]>>
    ELSE IntToStr(n \div 10) \o <<Digit[(n % 10) + 1]>>

(***************************************************************************)
(* whois_domain, lines 138-145: the clean-up of the domain argument.       *)
(***************************************************************************)
Http == <<"h", "t", "t", "p", ":", "/", "/">>
Https == <<"h", "t", "t", "p", "s", ":", "/", "/">>

CleanDomain(domain) ==
    LET d1 == Lower(Strip(domain))
        d2 == Replace(Replace(d1, Http, <<>>), Https, <<>>)
        d3 == SplitFirst(d2, "/")
    IN  SplitFirst(d3, ":")

(***************************************************************************)
(* run_whois_command, lines 74-97: the parser of the raw output.  A parsed *)
(* field is [list |-> FALSE, items |-> <<v>>] for a plain string v and     *)
(* [list |-> TRUE, items |-> <<v1, ..., vn>>] for a Python list.           *)
(***************************************************************************)
EmptyDict == <<>>

\* a variant of AddField in which a repeated key keeps only its last value
AddFieldOverwrite(fields, key, value) ==
    IF key \in DOMAIN fields
    THEN [fields EXCEPT ![key] = [list |-> FALSE, items |-> <<value>>]]
    ELSE fields @@ (key :> [list |-> FALSE, items |-> <<value>>])

AddField(fields, key, value) ==
    IF key \in DOMAIN fields
    THEN IF fields[key].list
         THEN [fields EXCEPT ![key] =
                  [list |-> TRUE, items |-> Append(@.items, value)]]
         ELSE [fields EXCEPT ![key] =
                  [list |-> TRUE, items |-> <<@.items[1], value>>]]
    ELSE fields @@ (key :> [list |-> FALSE, items |-> <<value>>])

\* a variant of ParseLine that records a field whatever its key and value
ParseLineUnchecked(fields, rawline) ==
    LET line == Strip(rawline)
    IN  IF /\ Contains(line, <<":">>)
           /\ ~StartsWith(line, <<"%">>)
           /\ ~StartsWith(line, <<"#">>)
        THEN LET key == Strip(SplitFirst(line, ":"))
                 value == Strip(AfterFirst(line, ":"))
             IN  AddField(fields, key, value)
        ELSE fields

ParseLine(fields, rawline) ==
    LET line == Strip(rawline)
    IN  IF /\ Contains(line, <<":">>)
           /\ ~StartsWith(line, <<"%">>)
           /\ ~StartsWith(line, <<"#">>)
        THEN LET key == Replace(Lower(Strip(SplitFirst(line, ":"))),
                                <<" ">>, <<"_">>)
                 value == Strip(AfterFirst(line, ":"))
             IN  IF Len(value) > 0 /\ Len(key) > 0
                 THEN AddField(fields, key, value)
                 ELSE fields
        ELSE fields

RECURSIVE ParseLines(_, _)
ParseLines(fields, lines) ==
    IF Len(lines) = 0 THEN fields
    ELSE ParseLines(ParseLine(fields, Head(lines)), Tail(lines))

ParseFields(raw_output) == ParseLines(EmptyDict, Split(raw_output, "\n"))

(***************************************************************************)
(* run_whois_command: the result dicts it returns.  A dict is a function   *)
(* whose domain is the set of its keys.                                    *)
(***************************************************************************)
\* datetime.now(timezone.utc).isoformat(): the instant is not modelled
Timestamp == "utc-now"

TimedOutPrefix ==
    <<"W", "H", "O", "I", "S", " ", "q", "u", "e", "r", "y", " ", "t", "i",
      "m", "e", "d", " ", "o", "u", "t", " ", "a", "f", "t", "e", "r", " ">>
TimedOutSuffix == <<" ", "s", "e", "c", "o", "n", "d", "s">>
FailedPrefix ==
    <<"W", "H", "O", "I", "S", " ", "c", "o", "m", "m", "a", "n", "d", " ",
      "f", "a", "i", "l", "e", "d", ":", " ">>
UnknownError ==
    <<"U", "n", "k", "n", "o", "w", "n", " ", "e", "r", "r", "o", "r">>
InternalPrefix ==
    <<"I", "n", "t", "e", "r", "n", "a", "l", " ", "e", "r", "r", "o", "r",
      ":", " ">>

ErrorResult(msg, q) == [error |-> msg, query |-> q, timestamp |-> Timestamp]

\* lines 57-61
TimeoutResult(q, timeout) ==
    ErrorResult(TimedOutPrefix \o IntToStr(timeout) \o TimedOutSuffix, q)

\* a variant of FailedResult that also hands back what the process printed
FailedResultWithOutput(q, stderr) ==
    LET error_msg == Strip(stderr)
    IN  ErrorResult(FailedPrefix \o
                      (IF Len(error_msg) > 0 THEN error_msg ELSE UnknownError),
                    q) @@ [raw_output |-> <<>>]

\* a variant of FailedResult that reports the error stream as it is
FailedResultUntrimmed(q, stderr) ==
    ErrorResult(FailedPrefix \o
                  (IF Len(stderr) > 0 THEN stderr ELSE UnknownError), q)

\* lines 63-69
FailedResult(q, stderr) ==
    LET error_msg == Strip(stderr)
    IN  ErrorResult(FailedPrefix \o
                      (IF Len(error_msg) > 0 THEN error_msg ELSE UnknownError),
                    q)

\* lines 101-107
InternalResult(q, description) == ErrorResult(InternalPrefix \o description, q)

\* lines 71-99
ParsedResult(q, stdout) ==
    [query |-> q, raw_output |-> stdout, timestamp |-> Timestamp,
     parsed_fields |-> ParseFields(stdout)]

(***************************************************************************)
(* whois_domain, lines 151-172: the registration status analysis.          *)
(***************************************************************************)
AvailablePhrases ==
    { <<"n", "o", " ", "m", "a", "t", "c", "h">>,
      <<"n", "o", "t", " ", "f", "o", "u", "n", "d">>,
      <<"n", "o", " ", "d", "a", "t", "a", " ", "f", "o", "u", "n", "d">>,
      <<"s", "t", "a", "t", "u", "s", ":", " ", "a", "v", "a", "i", "l", "a",
        "b", "l", "e">>,
      <<"n", "o", " ", "m", "a", "t", "c", "h", "i", "n", "g", " ", "r", "e",
        "c", "o", "r", "d">>,
      <<"n", "o", "t", " ", "r", "e", "g", "i", "s", "t", "e", "r", "e", "d">> }

KRegistrar == <<"r", "e", "g", "i", "s", "t", "r", "a", "r">>
KCreationDate ==
    <<"c", "r", "e", "a", "t", "i", "o", "n", "_", "d", "a", "t", "e">>
KCreated == <<"c", "r", "e", "a", "t", "e", "d">>
KExpiryDate == <<"e", "x", "p", "i", "r", "y", "_", "d", "a", "t", "e">>
KExpires == <<"e", "x", "p", "i", "r", "e", "s">>

\* dict.get(key, default)
Get(dict, key, default) == IF key \in DOMAIN dict THEN dict[key] ELSE default

IsRegistered(raw_output) ==
    ~\E phrase \in AvailablePhrases : Contains(Lower(raw_output), phrase)

\* bool(parsed_fields.get(key)): a stored value is never empty
HasField(parsed_fields, key) ==
    key \in DOMAIN parsed_fields /\ Len(parsed_fields[key].items) > 0

\* a variant of Analyse that analyses an error result as well
AnalyseAlways(res) ==
    LET raw_output == Get(res, "raw_output", <<>>)
        parsed_fields == Get(res, "parsed_fields", EmptyDict)
        is_registered == IsRegistered(raw_output)
    IN  res @@
        [is_registered |-> is_registered,
         analysis |->
           [registered |-> is_registered,
            has_registrar |-> HasField(parsed_fields, KRegistrar),
            has_creation_date |->
               \/ HasField(parsed_fields, KCreationDate)
               \/ HasField(parsed_fields, KCreated),
            has_expiry_date |->
               \/ HasField(parsed_fields, KExpiryDate)
               \/ HasField(parsed_fields, KExpires)]]

Analyse(res) ==
    IF "error" \notin DOMAIN res
    THEN LET raw_output == Get(res, "raw_output", <<>>)
             parsed_fields == Get(res, "parsed_fields", EmptyDict)
             is_registered == IsRegistered(raw_output)
         IN  res @@
             [is_registered |-> is_registered,
              analysis |->
                [registered |-> is_registered,
                 has_registrar |-> HasField(parsed_fields, KRegistrar),
                 has_creation_date |->
                    \/ HasField(parsed_fields, KCreationDate)
                    \/ HasField(parsed_fields, KCreated),
                 has_expiry_date |->
                    \/ HasField(parsed_fields, KExpiryDate)
                    \/ HasField(parsed_fields, KExpires)]]
    ELSE res

(***************************************************************************)
(* The arguments of the tools.  Python does not enforce the type hints, so *)
(* an argument is a str, an int or None.                                   *)
(***************************************************************************)
StrArg(s) == [t |-> "str", s |-> s, n |-> 0]
IntArg(n) == [t |-> "int", s |-> <<>>, n |-> n]
NoneArg == [t |-> "none", s |-> <<>>, n |-> 0]

SingleTools == {"whois_domain", "whois_tld", "whois_ip", "whois_asn"}

\* whois_tld, lines 244-246
TldQuery(tld) ==
    LET t == Lower(Strip(tld))
    IN  IF StartsWith(t, <<".">>) THEN t ELSE <<".">> \o t

\* whois_ip, line 267
IpQuery(ip_address) == Strip(ip_address)

\* whois_asn, lines 287-292
AsnQuery(asn) ==
    IF asn.t = "int" THEN <<"A", "S">> \o IntToStr(asn.n)
    ELSE LET a == Upper(Strip(asn.s))
         IN  IF IsDigit(a) THEN <<"A", "S">> \o a ELSE a

\* The str methods of lines 139, 244 and 267 raise AttributeError on an
\* argument that is no str; whois_asn tests the type of its argument.
ShapeRaises(tool, a) == tool # "whois_asn" /\ a.t # "str"

ShapeQuery(tool, a) ==
    CASE tool = "whois_domain" -> CleanDomain(a.s)
      [] tool = "whois_tld" -> TldQuery(a.s)
      [] tool = "whois_ip" -> IpQuery(a.s)
      [] tool = "whois_asn" -> AsnQuery(a)

(***************************************************************************)
(* The external whois process: what create_subprocess_exec and             *)
(* communicate may do.  "exit": the process ends with status rc and the    *)
(* two streams; "hang": it outlives the timeout; "nospawn": the spawn      *)
(* raises; "commexc": communicate raises.                                  *)
(***************************************************************************)
Exit(rc, stdout, stderr) ==
    [kind |-> "exit", rc |-> rc, stdout |-> stdout, stderr |-> stderr,
     exc |-> <<>>]
Hang ==
    [kind |-> "hang", rc |-> 0, stdout |-> <<>>, stderr |-> <<>>, exc |-> <<>>]
NoSpawn ==
    [kind |-> "nospawn", rc |-> 0, stdout |-> <<>>, stderr |-> <<>>,
     exc |-> <<"n", "o", " ", "w", "h", "o", "i", "s">>]
CommExc ==
    [kind |-> "commexc", rc |-> 0, stdout |-> <<>>, stderr |-> <<>>,
     exc |-> <<"i", "o">>]

RegisteredText ==
    <<"R", "e", "g", "i", "s", "t", "r", "a", "r", ":", " ", "X", "\n",
      "C", "r", "e", "a", "t", "e", "d", ":", " ", "1">>
NoMatchText == <<"N", "o", " ", "m", "a", "t", "c", "h">>
StderrText == <<" ", "f", "a", "i", "l", "\n">>
\* a byte that is no UTF-8
BadByte == "0xff"

BulkWorld ==
    { Exit(0, RegisteredText, <<>>), Exit(0, NoMatchText, <<>>),
      Exit(1, <<>>, StderrText), Hang, NoSpawn }

QueryWorld ==
    BulkWorld \cup
    { Exit(0, <<>>, <<>>), Exit(0, <<BadByte>> \o NoMatchText, StderrText),
      Exit(1, RegisteredText, <<" ", "\n">>), Exit(2, NoMatchText, <<>>),
      Exit(3, RegisteredText, <<"\t", BadByte, "e", " ", "r", BadByte, "\n">>),
      CommExc }

\* bytes.decode('utf-8', errors='ignore')
ValidByte(b) == b # BadByte
Decode(bytes) == SelectSeq(bytes, ValidByte)

(***************************************************************************)
(* The tasks.  pc[i] is the await the task is suspended at:                *)
(*   "called"        a single tool that has not started                    *)
(*   "waiting"       async with semaphore              (line 192)          *)
(*   "spawning"      await create_subprocess_exec      (line 46)           *)
(*   "communicating" await wait_for(communicate)       (line 53)           *)
(*   "reaping"       await process.wait()              (line 56)           *)
(*   "sleeping"      await asyncio.sleep(0.1)          (line 195)          *)
(*   "returned", "raised"                                                  *)
(***************************************************************************)
Tasks == 1..Len(args)

NoResult == [none |-> TRUE]
AttributeError == [exception |-> "AttributeError"]

\* The external process of a task: not spawned, running, killed and not yet
\* waited for, or ended with a return code.
NoProcess == [state |-> "none"]
Running == [state |-> "running"]
Killed == [state |-> "killed"]
Exited(returncode) == [state |-> "exited", returncode |-> returncode]
\* the return code of a process ended by process.kill(): -SIGKILL
KilledCode == -9

InGate(i) == pc[i] \in {"spawning", "communicating", "reaping", "sleeping"}
Settled(i) == pc[i] \in {"returned", "raised"}

checkVars == <<cleanIn, cleanOut, parseIn, parseOut>>

\* a variant of Return in which every tool adds the analysis
ReturnAnalysed(i, res) ==
    LET r == Analyse(res)
    IN  /\ result' = [result EXCEPT ![i] = r]
        /\ IF entry = "whois_domains"
           THEN /\ pc' = [pc EXCEPT ![i] = "sleeping"]
                /\ UNCHANGED <<opc, out, lastDone>>
           ELSE /\ pc' = [pc EXCEPT ![i] = "returned"]
                /\ lastDone' = i
                /\ opc' = "returned"
                /\ out' = r

\* a variant of Return in which lookup_single returns without the sleep
ReturnNoSleep(i, res) ==
    LET r == IF entry \in {"whois_domain", "whois_domains"}
             THEN Analyse(res) ELSE res
    IN  /\ result' = [result EXCEPT ![i] = r]
        /\ pc' = [pc EXCEPT ![i] = "returned"]
        /\ lastDone' = i
        /\ IF entry = "whois_domains"
           THEN UNCHANGED <<opc, out>>
           ELSE /\ opc' = "returned"
                /\ out' = r

\* run_whois_command returns res to its caller, which runs on to its next
\* await: whois_domain adds the analysis (lines 151-172), a single tool
\* returns (lines 172, 253, 272, 298), lookup_single sleeps (line 195).
Return(i, res) ==
    LET r == IF entry \in {"whois_domain", "whois_domains"}
             THEN Analyse(res) ELSE res
    IN  /\ result' = [result EXCEPT ![i] = r]
        /\ IF entry = "whois_domains"
           THEN /\ pc' = [pc EXCEPT ![i] = "sleeping"]
                /\ UNCHANGED <<opc, out, lastDone>>
           ELSE /\ pc' = [pc EXCEPT ![i] = "returned"]
                /\ lastDone' = i
                /\ opc' = "returned"
                /\ out' = r

\* A single tool is called: lines 139-149, 244-251, 267-270, 287-296.
Call ==
    /\ entry \in SingleTools
    /\ pc[1] = "called"
    /\ IF ShapeRaises(entry, args[1])
       THEN /\ pc' = [pc EXCEPT ![1] = "raised"]
            /\ lastDone' = 1
            /\ opc' = "raised"
            /\ out' = AttributeError
            /\ UNCHANGED query
       ELSE /\ pc' = [pc EXCEPT ![1] = "spawning"]
            /\ query' = [query EXCEPT ![1] = ShapeQuery(entry, args[1])]
            /\ UNCHANGED <<opc, out, lastDone>>
    /\ UNCHANGED <<entry, args, world, sem, proc, spawns, result, checkVars>>

\* a variant of Acquire that enters without waiting for a free slot
AcquireUngated(i) ==
    /\ entry = "whois_domains"
    /\ pc[i] = "waiting"
    /\ IF ShapeRaises("whois_domain", args[i])
       THEN /\ sem' = (sem - 1) + 1
            /\ pc' = [pc EXCEPT ![i] = "raised"]
            /\ lastDone' = i
            /\ result' = [result EXCEPT ![i] = AttributeError]
            /\ UNCHANGED query
       ELSE /\ sem' = sem - 1
            /\ pc' = [pc EXCEPT ![i] = "spawning"]
            /\ query' = [query EXCEPT ![i] = ShapeQuery("whois_domain", args[i])]
            /\ UNCHANGED <<result, lastDone>>
    /\ UNCHANGED <<entry, args, world, proc, spawns, opc, out, checkVars>>

\* a variant of Acquire in which a task that raises keeps its slot
AcquireLeakOnRaise(i) ==
    /\ entry = "whois_domains"
    /\ pc[i] = "waiting"
    /\ sem > 0
    /\ IF ShapeRaises("whois_domain", args[i])
       THEN /\ sem' = sem - 1
            /\ pc' = [pc EXCEPT ![i] = "raised"]
            /\ lastDone' = i
            /\ result' = [result EXCEPT ![i] = AttributeError]
            /\ UNCHANGED query
       ELSE /\ sem' = sem - 1
            /\ pc' = [pc EXCEPT ![i] = "spawning"]
            /\ query' = [query EXCEPT ![i] = ShapeQuery("whois_domain", args[i])]
            /\ UNCHANGED <<result, lastDone>>
    /\ UNCHANGED <<entry, args, world, proc, spawns, opc, out, checkVars>>

\* lookup_single enters the semaphore and calls whois_domain, which cleans
\* the domain and calls run_whois_command (lines 192-193, 139-149, 46).  An
\* exception leaves the async with block, which releases the semaphore.
Acquire(i) ==
    /\ entry = "whois_domains"
    /\ pc[i] = "waiting"
    /\ sem > 0
    /\ IF ShapeRaises("whois_domain", args[i])
       THEN /\ sem' = (sem - 1) + 1
            /\ pc' = [pc EXCEPT ![i] = "raised"]
            /\ lastDone' = i
            /\ result' = [result EXCEPT ![i] = AttributeError]
            /\ UNCHANGED query
       ELSE /\ sem' = sem - 1
            /\ pc' = [pc EXCEPT ![i] = "spawning"]
            /\ query' = [query EXCEPT ![i] = ShapeQuery("whois_domain", args[i])]
            /\ UNCHANGED <<result, lastDone>>
    /\ UNCHANGED <<entry, args, world, proc, spawns, opc, out, checkVars>>

\* a variant of Spawn that lets the exception of the spawn escape
SpawnUncaught(i) ==
    /\ pc[i] = "spawning"
    /\ \E b \in world :
          IF b.kind = "nospawn"
          THEN /\ pc' = [pc EXCEPT ![i] = "raised"]
               /\ lastDone' = i
               /\ result' = [result EXCEPT ![i] = [exception |-> "OSError"]]
               /\ IF entry = "whois_domains"
                  THEN UNCHANGED <<opc, out>>
                  ELSE opc' = "raised" /\ out' = [exception |-> "OSError"]
               /\ UNCHANGED <<proc, spawns>>
          ELSE /\ pc' = [pc EXCEPT ![i] = "communicating"]
               /\ proc' = [proc EXCEPT ![i] = Running]
               /\ spawns' = [spawns EXCEPT ![i] = @ + 1]
               /\ UNCHANGED <<result, opc, out, lastDone>>
    /\ UNCHANGED <<entry, args, world, sem, query, checkVars>>

\* create_subprocess_exec completes (line 46), or raises (lines 101-107).
Spawn(i) ==
    /\ pc[i] = "spawning"
    /\ \E b \in world :
          IF b.kind = "nospawn"
          THEN /\ Return(i, InternalResult(query[i], b.exc))
               /\ UNCHANGED <<proc, spawns>>
          ELSE /\ pc' = [pc EXCEPT ![i] = "communicating"]
               /\ proc' = [proc EXCEPT ![i] = Running]
               /\ spawns' = [spawns EXCEPT ![i] = @ + 1]
               /\ UNCHANGED <<result, opc, out, lastDone>>
    /\ UNCHANGED <<entry, args, world, sem, query, checkVars>>

\* a variant of Communicate that returns on a timeout without killing the
\* process and waiting for its end
CommunicateNoKill(i) ==
    /\ pc[i] = "communicating"
    /\ \E b \in world :
          /\ b.kind # "nospawn"
          /\ CASE b.kind = "exit" ->
                    /\ proc' = [proc EXCEPT ![i] = Exited(b.rc)]
                    /\ Return(i, IF b.rc # 0
                                 THEN FailedResult(query[i], Decode(b.stderr))
                                 ELSE ParsedResult(query[i], Decode(b.stdout)))
               [] b.kind = "hang" ->
                    /\ UNCHANGED proc
                    /\ Return(i, TimeoutResult(query[i], DefaultTimeout))
               [] b.kind = "commexc" ->
                    /\ UNCHANGED proc
                    /\ Return(i, InternalResult(query[i], b.exc))
    /\ UNCHANGED <<entry, args, world, sem, query, spawns, checkVars>>

\* wait_for(process.communicate(), timeout) completes, times out or raises
\* (lines 53-56, 63-99, 101-107).
Communicate(i) ==
    /\ pc[i] = "communicating"
    /\ \E b \in world :
          /\ b.kind # "nospawn"
          /\ CASE b.kind = "exit" ->
                    /\ proc' = [proc EXCEPT ![i] = Exited(b.rc)]
                    /\ Return(i, IF b.rc # 0
                                 THEN FailedResult(query[i], Decode(b.stderr))
                                 ELSE ParsedResult(query[i], Decode(b.stdout)))
               [] b.kind = "hang" ->
                    /\ proc' = [proc EXCEPT ![i] = Killed]
                    /\ pc' = [pc EXCEPT ![i] = "reaping"]
                    /\ UNCHANGED <<result, opc, out, lastDone>>
               [] b.kind = "commexc" ->
                    /\ UNCHANGED proc
                    /\ Return(i, InternalResult(query[i], b.exc))
    /\ UNCHANGED <<entry, args, world, sem, query, spawns, checkVars>>

\* a variant of Reap that tries the query again after a timeout
ReapRetry(i) ==
    /\ pc[i] = "reaping"
    /\ proc' = [proc EXCEPT ![i] = Exited(KilledCode)]
    /\ pc' = [pc EXCEPT ![i] = "spawning"]
    /\ UNCHANGED <<entry, args, world, sem, query, spawns, result, opc, out,
                   lastDone, checkVars>>

\* process.wait() completes after the kill (lines 56-61).
Reap(i) ==
    /\ pc[i] = "reaping"
    /\ proc' = [proc EXCEPT ![i] = Exited(KilledCode)]
    /\ Return(i, TimeoutResult(query[i], DefaultTimeout))
    /\ UNCHANGED <<entry, args, world, sem, query, spawns, checkVars>>

\* a variant of EndSleep that returns without releasing the semaphore
EndSleepNoRelease(i) ==
    /\ pc[i] = "sleeping"
    /\ pc' = [pc EXCEPT ![i] = "returned"]
    /\ lastDone' = i
    /\ UNCHANGED <<entry, args, world, sem, query, proc, spawns, result, opc,
                   out, checkVars>>

\* asyncio.sleep(0.1) completes; lookup_single leaves the async with block
\* and returns (lines 195-196).
EndSleep(i) ==
    /\ pc[i] = "sleeping"
    /\ pc' = [pc EXCEPT ![i] = "returned"]
    /\ lastDone' = i
    /\ sem' = sem + 1
    /\ UNCHANGED <<entry, args, world, query, proc, spawns, result, opc, out,
                   checkVars>>

(***************************************************************************)
(* whois_domains, lines 200-229: gather and the aggregation.               *)
(***************************************************************************)
\* a variant of GatherResults in which a task returns its cleaned domain
GatherResultsCleaned ==
    [i \in Tasks |->
        [exc |-> pc[i] = "raised", domain |-> StrArg(query[i]),
         whois_result |-> result[i]]]

\* a variant of GatherResults that yields the entries as the tasks complete:
\* the entry of the task that settled last comes last
GatherResultsAsCompleted ==
    LET entryOf(i) == [exc |-> pc[i] = "raised", domain |-> args[i],
                       whois_result |-> result[i]]
        early == SelectSeq([i \in Tasks |-> i], LAMBDA i : i # lastDone)
    IN  [n \in 1..Len(early) |-> entryOf(early[n])]
        \o (IF lastDone \in Tasks THEN <<entryOf(lastDone)>> ELSE <<>>)

\* asyncio.gather(*tasks, return_exceptions=True): one entry per task, in
\* the order of the list
GatherResults ==
    [i \in Tasks |->
        [exc |-> pc[i] = "raised", domain |-> args[i],
         whois_result |-> result[i]]]

\* a variant of Put that keeps the value a key already has
PutKeepFirst(dict, key, value) ==
    IF key \in DOMAIN dict THEN dict
    ELSE dict @@ (key :> value)

Put(dict, key, value) ==
    IF key \in DOMAIN dict THEN [dict EXCEPT ![key] = value]
    ELSE dict @@ (key :> value)

\* a variant of TallyOne that forgets to count a task that raised
TallyOneUncounted(acc, res) ==
    IF res.exc THEN acc
    ELSE [domain_results |->
             Put(acc.domain_results, res.domain, res.whois_result),
          registered_count |->
             acc.registered_count +
             (IF Get(res.whois_result, "is_registered", FALSE) THEN 1 ELSE 0),
          error_count |->
             acc.error_count +
             (IF "error" \in DOMAIN res.whois_result THEN 1 ELSE 0)]

\* the body of the loop, lines 208-218
TallyOne(acc, res) ==
    IF res.exc
    THEN [acc EXCEPT !.error_count = @ + 1]
    ELSE [domain_results |->
             Put(acc.domain_results, res.domain, res.whois_result),
          registered_count |->
             acc.registered_count +
             (IF Get(res.whois_result, "is_registered", FALSE) THEN 1 ELSE 0),
          error_count |->
             acc.error_count +
             (IF "error" \in DOMAIN res.whois_result THEN 1 ELSE 0)]

\* the loop of lines 207-218
RECURSIVE Tally(_, _)
Tally(acc, results) ==
    IF Len(results) = 0 THEN acc
    ELSE Tally(TallyOne(acc, Head(results)), Tail(results))

\* a variant of BulkResult that takes the available domains from the number
\* of entries of results
BulkResultFromEntries(domains, results) ==
    LET acc == Tally([domain_results |-> EmptyDict, registered_count |-> 0,
                      error_count |-> 0], results)
    IN  [results |-> acc.domain_results,
         summary |->
           [total_domains |-> Len(domains),
            registered_domains |-> acc.registered_count,
            available_domains |->
               Cardinality(DOMAIN acc.domain_results)
                  - acc.registered_count - acc.error_count,
            errors |-> acc.error_count,
            timestamp |-> Timestamp]]

\* lines 203-205 and 220-229
BulkResult(domains, results) ==
    LET acc == Tally([domain_results |-> EmptyDict, registered_count |-> 0,
                      error_count |-> 0], results)
    IN  [results |-> acc.domain_results,
         summary |->
           [total_domains |-> Len(domains),
            registered_domains |-> acc.registered_count,
            available_domains |->
               Len(domains) - acc.registered_count - acc.error_count,
            errors |-> acc.error_count,
            timestamp |-> Timestamp]]

\* a variant of Aggregate that does not wait for the tasks: it takes what
\* there is as soon as one task has settled
AggregateEarly ==
    /\ entry = "whois_domains"
    /\ opc = "running"
    /\ \E i \in Tasks : Settled(i)
    /\ out' = BulkResult(args, GatherResults)
    /\ opc' = "returned"
    /\ UNCHANGED <<entry, args, world, sem, pc, query, proc, spawns, result,
                   lastDone, checkVars>>

\* gather returns once every task has returned or raised (line 200)
Aggregate ==
    /\ entry = "whois_domains"
    /\ opc = "running"
    /\ \A i \in Tasks : Settled(i)
    /\ out' = BulkResult(args, GatherResults)
    /\ opc' = "returned"
    /\ UNCHANGED <<entry, args, world, sem, pc, query, proc, spawns, result,
                   lastDone, checkVars>>

(***************************************************************************)
(* The specifications.                                                     *)
(***************************************************************************)
Called(tool, a, w, at) ==
    /\ entry = tool /\ args = a /\ world = w
    /\ sem = SemaphoreCap
    /\ pc = [i \in 1..Len(a) |-> at]
    /\ query = [i \in 1..Len(a) |-> <<>>]
    /\ proc = [i \in 1..Len(a) |-> NoProcess]
    /\ spawns = [i \in 1..Len(a) |-> 0]
    /\ result = [i \in 1..Len(a) |-> NoResult]
    /\ opc = "running"
    /\ out = NoResult
    /\ lastDone = 0
    /\ cleanIn = <<>> /\ cleanOut = <<>> /\ parseIn = <<>> /\ parseOut = <<>>

DomainPool == { StrArg(<<"a">>), StrArg(<<" ", "A", "/">>), NoneArg }

\* whois_domains on any list of at most MaxDomains domains
Init ==
    \E n \in 0..MaxDomains : \E a \in [1..n -> DomainPool] :
        Called("whois_domains", a, BulkWorld, "waiting")

NextBulk ==
    \/ \E i \in Tasks : Acquire(i)
    \/ \E i \in Tasks : Spawn(i)
    \/ \E i \in Tasks : Communicate(i)
    \/ \E i \in Tasks : Reap(i)
    \/ \E i \in Tasks : EndSleep(i)
    \/ Aggregate

Spec == Init /\ [][NextBulk]_vars

\* whois_domains on GateDomains domains, more than the semaphore admits at
\* once, with a whois that behaves the same way for every domain
GateLists ==
    { [i \in 1..GateDomains |-> StrArg(<<"a">>)],
      [i \in 1..GateDomains |-> IF i = 1 THEN NoneArg ELSE StrArg(<<"a">>)] }

InitGate ==
    \E a \in GateLists : \E b \in BulkWorld :
        Called("whois_domains", a, {b}, "waiting")

SpecGate == InitGate /\ [][NextBulk]_vars

\* one call of a single tool
ToolPool(tool) ==
    CASE tool = "whois_domain" ->
            { StrArg(<<"a">>), StrArg(<<" ", "A", "/">>),
              StrArg(Http \o <<"a", ":", "8">>), NoneArg }
      [] tool = "whois_tld" ->
            { StrArg(<<"c">>), StrArg(<<".", "C", " ">>), NoneArg }
      [] tool = "whois_ip" ->
            { StrArg(<<" ", "1", ":", ":", "1">>), StrArg(<<"8", ".", "8">>),
              NoneArg }
      [] tool = "whois_asn" ->
            { IntArg(15), StrArg(<<"1", "5">>), StrArg(<<"a", "s", "1", "5">>),
              StrArg(<<" ", "7", "\n">>) }

InitQuery ==
    \E tool \in SingleTools : \E a \in ToolPool(tool) :
        Called(tool, <<a>>, QueryWorld, "called")

NextQuery ==
    \/ Call
    \/ \E i \in Tasks : Spawn(i)
    \/ \E i \in Tasks : Communicate(i)
    \/ \E i \in Tasks : Reap(i)

SpecQuery == InitQuery /\ [][NextQuery]_vars

(***************************************************************************)
(* The clean-up check: the clean-up applied to a raw text, then to its own *)
(* result.  The raw texts are the concatenations of at most MaxFrags of    *)
(* the fragments below.                                                    *)
(***************************************************************************)
Fragments ==
    { Http, Https, <<"h", "t">>, <<"t", "p", ":", "/", "/">>, <<"a">>,
      <<"B">>, <<" ">>, <<"/">>, <<":">>, <<"\t">> }

RECURSIVE Concat(_)
Concat(ss) == IF Len(ss) = 0 THEN <<>> ELSE Head(ss) \o Concat(Tail(ss))

FragTexts ==
    { Concat(fs) : fs \in UNION { [1..n -> Fragments] : n \in 0..MaxFrags } }

Idle ==
    /\ entry = "none" /\ args = <<>> /\ world = {} /\ sem = SemaphoreCap
    /\ pc = <<>> /\ query = <<>> /\ proc = <<>> /\ spawns = <<>>
    /\ result = <<>> /\ opc = "none" /\ out = [none |-> TRUE]
    /\ lastDone = 0

InitClean ==
    /\ Idle
    /\ cleanIn \in FragTexts
    /\ cleanOut = <<>>
    /\ parseIn = <<>> /\ parseOut = <<>>

CleanStep ==
    /\ Len(cleanOut) < 2
    /\ cleanOut' = Append(cleanOut,
                     CleanDomain(IF cleanOut = <<>> THEN cleanIn
                                 ELSE cleanOut[Len(cleanOut)]))
    /\ UNCHANGED <<entry, args, world, sem, pc, query, proc, spawns, result,
                   lastDone, opc, out, cleanIn, parseIn, parseOut>>

NextClean == CleanStep

SpecClean == InitClean /\ [][NextClean]_vars

(***************************************************************************)
(* The parser of run_whois_command over the texts of up to MaxLines lines. *)
(***************************************************************************)
Lines ==
    { <<"K", ":", "v">>,
      <<"k", ":", " ", "w">>,
      <<" ", "K", " ", ":", "x", ":", "y", "\r">>,
      <<"k", ":">>,
      <<":", "v">>,
      <<"%", "k", ":", "v">>,
      <<"#", "k", ":", "v">>,
      <<"k">>,
      <<"A", " ", "b", ":", "v", " ", "w">>,
      <<"a", "_", "B", " ", ":", "\t", "x">>,
      <<>> }

\* '\n'.join(ls)
RECURSIVE Join(_)
Join(ls) ==
    IF Len(ls) = 0 THEN <<>>
    ELSE IF Len(ls) = 1 THEN Head(ls)
    ELSE Head(ls) \o <<"\n">> \o Join(Tail(ls))

RawTexts ==
    { Join(ls) : ls \in UNION { [1..n -> Lines] : n \in 0..MaxLines } }

InitParse ==
    /\ Idle
    /\ cleanIn = <<>> /\ cleanOut = <<>>
    /\ parseIn \in RawTexts
    /\ parseOut = <<>>

ParseStep ==
    /\ parseOut = <<>>
    /\ parseOut' = <<ParseFields(parseIn)>>
    /\ UNCHANGED <<entry, args, world, sem, pc, query, proc, spawns, result,
                   lastDone, opc, out, cleanIn, cleanOut, parseIn>>

NextParse == ParseStep

SpecParse == InitParse /\ [][NextParse]_vars

(***************************************************************************)
(* The properties.                                                         *)
(***************************************************************************)
BulkReturned == entry = "whois_domains" /\ opc = "returned"

Raised == {i \in Tasks : pc[i] = "raised"}
Returned == {i \in Tasks : pc[i] = "returned"}
HasError(i) == "error" \in DOMAIN result[i]
InGateSet == {i \in Tasks : InGate(i)}
LiveProcesses == {i \in Tasks : proc[i].state \in {"running", "killed"}}

\* C1: the summary of every bulk lookup adds up: registered_domains +
\* available_domains + errors = total_domains, and total_domains is the
\* length of the input list.
C1_SummaryAddsUp ==
    BulkReturned =>
        LET sm == out.summary
        IN  /\ sm.registered_domains + sm.available_domains + sm.errors
                 = sm.total_domains
            /\ sm.total_domains = Len(args)

\* C1: a bulk lookup has returned with a registered domain, an available one
\* and a task that raised
C1_Witness ==
    /\ BulkReturned
    /\ Raised # {}
    /\ out.summary.registered_domains >= 1
    /\ out.summary.available_domains >= 1
    /\ out.summary.errors >= 1

LastFor(i) ==
    CHOOSE j \in Returned :
        /\ args[j] = args[i]
        /\ \A k \in Returned : args[k] = args[i] => k <= j

\* every task that did not raise has run to a result of its own, and every
\* task that raised adds exactly 1 to errors and leaves no entry in results
RaisedIsolated ==
    /\ \A i \in Tasks \ Raised :
          pc[i] = "returned" /\ "query" \in DOMAIN result[i]
    /\ out.summary.errors =
          Cardinality(Raised) + Cardinality({i \in Returned : HasError(i)})
    /\ out.summary.total_domains = Len(args)
    /\ \A i \in Raised : args[i] \notin DOMAIN out.results

\* C3 as stated: a task that raises is isolated, and the result of every task
\* that did not raise is present in results.
C3_EveryResultPresent ==
    BulkReturned =>
        /\ RaisedIsolated
        /\ \A i \in Returned :
              /\ args[i] \in DOMAIN out.results
              /\ out.results[args[i]] = result[i]

\* C3, amended: a task that raises is isolated: every sibling runs to its own
\* result, each raising task adds exactly 1 to errors and its domain is absent
\* from results, and the domain of every task that did not raise is a key of
\* results, whose entry is the result of the last such task with that domain.
C3_RaisedTaskIsolated ==
    BulkReturned =>
        /\ RaisedIsolated
        /\ \A i \in Returned :
              /\ args[i] \in DOMAIN out.results
              /\ out.results[args[i]] = result[LastFor(i)]

\* C3: the lookup of three domains has returned, the task of the second one
\* raised, and results holds the first and the third
C3_Witness ==
    /\ BulkReturned
    /\ Len(args) = 3
    /\ Raised = {2}
    /\ args[1] # args[3]
    /\ DOMAIN out.results = {args[1], args[3]}
    /\ out.summary.errors = 1
    /\ out.summary.total_domains = 3

HasResult(i) == "query" \in DOMAIN result[i]

TimedOutText == <<"t", "i", "m", "e", "d", " ", "o", "u", "t">>

\* the message of a timed out query: "WHOIS query timed out after 10 seconds"
TimedOutMessage ==
    <<"W", "H", "O", "I", "S", " ", "q", "u", "e", "r", "y", " ", "t", "i",
      "m", "e", "d", " ", "o", "u", "t", " ", "a", "f", "t", "e", "r", " ",
      "1", "0", " ", "s", "e", "c", "o", "n", "d", "s">>

\* the process of task i was killed because it outlived the timeout
TimedOutTask(i) ==
    \/ proc[i].state = "killed"
    \/ proc[i].state = "exited" /\ proc[i].returncode = KilledCode

\* C4: a call that exceeds the timeout returns a result whose error contains
\* "timed out" (the message "WHOIS query timed out after 10 seconds"), and it
\* returns only after the process was killed and its end awaited: while the
\* killed process has not ended there is no result, and no result with that
\* message belongs to a process that still runs.
C4_TimeoutKillsAndReports ==
    \A i \in Tasks :
        /\ (TimedOutTask(i) /\ HasResult(i)) =>
              /\ proc[i].state = "exited"
              /\ "error" \in DOMAIN result[i]
              /\ Contains(result[i].error, TimedOutText)
              /\ result[i].error = TimedOutMessage
        /\ (HasResult(i) /\ HasError(i)
              /\ StartsWith(result[i].error, TimedOutPrefix)) =>
              /\ proc[i].state = "exited"
              /\ proc[i].returncode = KilledCode
        /\ proc[i].state = "killed" => (pc[i] = "reaping" /\ ~HasResult(i))

\* C4: a single query has returned the timeout error, its process has ended
C4_Witness ==
    /\ entry \in SingleTools
    /\ opc = "returned"
    /\ "error" \in DOMAIN out
    /\ out.error = TimedOutMessage
    /\ proc[1].state = "exited"
    /\ proc[1].returncode = KilledCode

ErrorShape(res) ==
    /\ "error" \in DOMAIN res
    /\ "raw_output" \notin DOMAIN res
    /\ "parsed_fields" \notin DOMAIN res

ParsedShape(res) ==
    /\ "error" \notin DOMAIN res
    /\ "raw_output" \in DOMAIN res
    /\ "parsed_fields" \in DOMAIN res

\* C5: every result of run_whois_command has exactly one of two shapes: error
\* without raw_output and parsed_fields, or raw_output and parsed_fields
\* without error; query and timestamp are present in both.
C5_TwoShapes ==
    \A i \in Tasks :
        HasResult(i) =>
            /\ {"query", "timestamp"} \subseteq DOMAIN result[i]
            /\ ErrorShape(result[i]) \/ ParsedShape(result[i])
            /\ ~(ErrorShape(result[i]) /\ ParsedShape(result[i]))

\* C5: a query has returned parsed fields, without error
C5_Witness ==
    /\ opc = "returned"
    /\ entry \in SingleTools
    /\ ParsedShape(out)
    /\ DOMAIN out.parsed_fields # {}

\* C6 as stated: every key of results is the cleaned form of the input
\* domain, equal to the query of its entry.
C6_KeyIsCleanedDomain ==
    BulkReturned =>
        \A k \in DOMAIN out.results :
            /\ k.s = CleanDomain(k.s)
            /\ k.s = out.results[k].query

\* C6, amended: every key of results is an input domain as it was given, of a
\* task that did not raise, and the query of its entry is the cleaned form of
\* that key.
C6_KeyIsInputDomain ==
    BulkReturned =>
        \A k \in DOMAIN out.results :
            /\ \E i \in Returned : args[i] = k
            /\ k.t = "str"
            /\ out.results[k].query = CleanDomain(k.s)

\* C6: results has a key that is not in cleaned form
C6_Witness ==
    /\ BulkReturned
    /\ \E k \in DOMAIN out.results :
          /\ k.s # CleanDomain(k.s)
          /\ out.results[k].query = <<"a">>

\* C7: the clean-up of a domain is idempotent: cleaning a cleaned domain
\* again gives the same string, for every input string.
C7_CleanIdempotent == Len(cleanOut) = 2 => cleanOut[2] = cleanOut[1]

\* the batch is over: every task has settled and released its slot, and
\* whois_domains has returned
BatchDone ==
    /\ BulkReturned
    /\ \A i \in Tasks : Settled(i)
    /\ sem = SemaphoreCap

\* some step of the batch can be taken: a waiting task finds a free slot, an
\* await of a task inside the gate can complete, or gather can return
CanStep ==
    \/ \E i \in Tasks : pc[i] = "waiting" /\ sem > 0
    \/ \E i \in Tasks : InGate(i)
    \/ opc = "running" /\ \A i \in Tasks : Settled(i)

\* the awaits a task still has to pass
StepsLeft(at) ==
    CASE at = "waiting" -> 5
      [] at = "spawning" -> 4
      [] at = "communicating" -> 3
      [] at = "reaping" -> 2
      [] at = "sleeping" -> 1
      [] OTHER -> 0

RECURSIVE SumStepsLeft(_)
SumStepsLeft(ats) ==
    IF Len(ats) = 0 THEN 0
    ELSE StepsLeft(Head(ats)) + SumStepsLeft(Tail(ats))

\* the steps the batch still has to take, at most
WorkLeft == SumStepsLeft(pc) + (IF opc = "running" THEN 1 ELSE 0)

\* C8: a bulk batch of more than 5 domains runs to completion: until
\* whois_domains has returned with every task settled and every slot free,
\* some step can be taken (the gate never deadlocks), and every step brings
\* the batch nearer to its end; so under fair scheduling, with every process
\* ending or outliving its timeout, every task is admitted, settles and
\* releases its slot, and whois_domains returns.
C8_BatchCompletes ==
    /\ BatchDone \/ CanStep
    /\ [][/\ (BatchDone \/ CanStep)'
          /\ WorkLeft' < WorkLeft]_vars

\* C8: a batch of more than 5 domains has returned, every task with a result
C8_Witness ==
    /\ BulkReturned
    /\ Len(args) > SemaphoreCap
    /\ Returned = Tasks
    /\ sem = SemaphoreCap
    /\ out.summary.total_domains = Len(args)

\* C9: run_whois_command never raises: a tool raises only on an argument that
\* is no str, before it calls run_whois_command; an exception of the spawn or
\* of communicate becomes a result whose error starts with "Internal error: ",
\* and a timeout or a non-zero exit becomes an error result.
C9_NeverRaises ==
    /\ opc = "raised" => ShapeRaises(entry, args[1])
    /\ \A i \in Tasks :
          /\ pc[i] = "raised" =>
                /\ ShapeRaises(entry, args[i])
                /\ spawns[i] = 0
          /\ pc[i] = "returned" =>
                /\ HasResult(i)
                /\ {"query", "timestamp"} \subseteq DOMAIN result[i]
                /\ (spawns[i] = 0 \/ proc[i].state = "running") =>
                      /\ HasError(i)
                      /\ StartsWith(result[i].error, InternalPrefix)
                /\ (proc[i].state = "exited" /\ proc[i].returncode # 0) =>
                      HasError(i)

\* C9: the spawn raised and the tool returned an "Internal error: " result
C9_Witness ==
    /\ entry \in SingleTools
    /\ opc = "returned"
    /\ spawns[1] = 0
    /\ "error" \in DOMAIN out
    /\ StartsWith(out.error, InternalPrefix)
    /\ Len(out.error) > Len(InternalPrefix)

\* C10: is_registered and analysis are present only in a result of the
\* single-domain path that carries no error (and there both are): never in a
\* result of a TLD, IP or ASN lookup, never in an error result.
C10_AnalysisOnlyForDomains ==
    \A i \in Tasks :
        HasResult(i) =>
            LET keys == DOMAIN result[i]
                analysed == entry \in {"whois_domain", "whois_domains"}
                              /\ "error" \notin keys
            IN  /\ "is_registered" \in keys <=> analysed
                /\ "analysis" \in keys <=> analysed

\* C10: a TLD lookup has returned parsed fields without is_registered and
\* analysis
C10_Witness ==
    /\ entry = "whois_tld"
    /\ opc = "returned"
    /\ ParsedShape(out)
    /\ DOMAIN out.parsed_fields # {}
    /\ "is_registered" \notin DOMAIN out
    /\ "analysis" \notin DOMAIN out

\* the parser has run
Parsed == Len(parseOut) = 1

\* a value of parsed_fields holds no empty string
NoEmptyValue(v) ==
    /\ Len(v.items) >= 1
    /\ \A n \in 1..Len(v.items) : Len(v.items[n]) > 0
    /\ v.list <=> Len(v.items) >= 2

\* C11: every key of parsed_fields is lower-case, not empty and without a
\* space, and no key maps to an empty value: neither to an empty string nor
\* to a list that holds an empty string.
C11_KeysNormalisedValuesNonEmpty ==
    Parsed =>
        \A k \in DOMAIN parseOut[1] :
            /\ Len(k) > 0
            /\ \A n \in 1..Len(k) : k[n] # " " /\ k[n] \notin DOMAIN UpperToLower
            /\ NoEmptyValue(parseOut[1][k])

\* C11: a text with an upper-case key with a space, a line with an empty
\* value and a line with an empty key has been parsed into the one field a_b
C11_Witness ==
    /\ Parsed
    /\ Contains(parseIn, <<"A", " ", "b", ":">>)
    /\ Contains(parseIn, <<"\n", "k", ":", "\n">>)
    /\ Contains(parseIn, <<"\n", ":", "v">>)
    /\ DOMAIN parseOut[1] = {<<"a", "_", "b">>}

\* the line is a field line: it has a ':' and is no comment
FieldLine(rawline) ==
    LET line == Strip(rawline)
    IN  /\ Contains(line, <<":">>)
        /\ line[1] \notin {"%", "#"}

\* the key and the value a field line stands for
LineKey(rawline) ==
    Replace(Lower(Strip(SplitFirst(Strip(rawline), ":"))), <<" ">>, <<"_">>)

LineValue(rawline) == Strip(AfterFirst(Strip(rawline), ":"))

\* the values of the occurrences of key in lines that are not empty, in the
\* order of the lines
Occurrences(lines, key) ==
    LET Occurs(n) ==
            /\ FieldLine(lines[n])
            /\ LineKey(lines[n]) = key
            /\ LineValue(lines[n]) # <<>>
        at == SelectSeq([n \in 1..Len(lines) |-> n], Occurs)
    IN  [m \in 1..Len(at) |-> LineValue(lines[at[m]])]

\* C12: field aggregation preserves the order of occurrence: a key with one
\* non-empty value maps to that plain string, a key with n >= 2 non-empty
\* values maps to the list of them in the order of the lines, and an
\* occurrence with an empty value neither creates nor extends the entry.
C12_OccurrenceOrderKept ==
    Parsed =>
        LET lines == Split(parseIn, "\n")
            fields == parseOut[1]
            keys == { LineKey(lines[n]) :
                        n \in { m \in 1..Len(lines) : FieldLine(lines[m]) } }
        IN  /\ DOMAIN fields \subseteq keys \ {<<>>}
            /\ \A k \in keys \ {<<>>} :
                  LET vs == Occurrences(lines, k)
                  IN  /\ Len(vs) = 0 => k \notin DOMAIN fields
                      /\ Len(vs) = 1 =>
                            /\ k \in DOMAIN fields
                            /\ fields[k] = [list |-> FALSE, items |-> vs]
                      /\ Len(vs) >= 2 =>
                            /\ k \in DOMAIN fields
                            /\ fields[k] = [list |-> TRUE, items |-> vs]

\* C12: a key that occurs three times has been parsed into the list of its
\* three values in the order of the lines
C12_Witness ==
    /\ Parsed
    /\ <<"k">> \in DOMAIN parseOut[1]
    /\ parseOut[1][<<"k">>] =
          [list |-> TRUE,
           items |-> << <<"w">>, <<"x", ":", "y">>, <<"v">> >>]

\* task i takes a step in which it spawns its process
SpawnsNow(i) == spawns'[i] > spawns[i]

\* task i takes the step by which it settles: returns or raises
SettlesNow(i) == ~Settled(i) /\ pc'[i] \in {"returned", "raised"}

\* C13 as stated: every task, whether its lookup returns or raises, takes a
\* slot before its process is spawned and gives it back only when its grace
\* delay has elapsed.
C13_EveryTaskSleepsBeforeRelease ==
    [][\A i \in Tasks :
          /\ SpawnsNow(i) => InGate(i)
          /\ SettlesNow(i) => (pc[i] = "sleeping" /\ sem' = sem + 1)]_vars

\* C13, amended: a task leaves the wait for the gate only when a slot is
\* free, its process is spawned only while it holds the slot, and a task
\* whose lookup returns gives the slot back only when its grace delay has
\* elapsed; a task whose lookup raises gives the slot back at once, without
\* a delay, and has spawned no process.
C13_SlotHeldFromSpawnToDelay ==
    [][\A i \in Tasks :
          /\ (pc[i] = "waiting" /\ pc'[i] # "waiting") => sem > 0
          /\ SpawnsNow(i) => (InGate(i) /\ sem < SemaphoreCap)
          /\ (InGate(i) /\ ~InGate(i)') =>
                (pc[i] = "sleeping" /\ pc'[i] = "returned" /\ sem' = sem + 1)
          /\ (SettlesNow(i) /\ pc'[i] = "returned") => pc[i] = "sleeping"
          /\ (SettlesNow(i) /\ pc'[i] = "raised") =>
                (pc[i] = "waiting" /\ sem' = sem /\ spawns[i] = 0)]_vars

\* C13: a batch in which one task has raised, without a process, and another
\* has spawned its process and returned after its grace delay
C13_Witness ==
    /\ entry = "whois_domains"
    /\ \E i, j \in Tasks :
          /\ pc[i] = "raised" /\ spawns[i] = 0
          /\ pc[j] = "returned" /\ spawns[j] = 1
    /\ sem = SemaphoreCap

\* the step in which whois_domains computes results and summary
AggregatesNow == entry = "whois_domains" /\ out' # out

\* C14: there is one task per domain from the start, and results and summary
\* are computed only when every task has settled: in the state where the
\* aggregation starts no task waits for the gate, runs its lookup or sleeps,
\* and while a task has not settled there is no bulk result.
C14_AggregatesAfterAllSettled ==
    /\ [](entry = "whois_domains" =>
            /\ Len(pc) = Len(args)
            /\ (\E i \in Tasks : ~Settled(i)) =>
                  (opc = "running" /\ out = NoResult))
    /\ [][AggregatesNow =>
            /\ \A i \in Tasks : Settled(i)
            /\ \A i \in Tasks : pc[i] # "waiting" /\ ~InGate(i)
            /\ opc = "running" /\ opc' = "returned"
            /\ pc' = pc]_vars

\* C14: a batch has been aggregated after one task raised, one timed out and
\* one returned parsed fields
C14_Witness ==
    /\ BulkReturned
    /\ \E i, j, k \in Tasks :
          /\ pc[i] = "raised"
          /\ pc[j] = "returned" /\ TimedOutTask(j)
          /\ pc[k] = "returned" /\ ParsedShape(result[k])
    /\ out.summary.errors = 2

\* What a batch returns, as a function of the input list and of the outcome
\* of each task alone: results holds, for each input string of a task that
\* returned, the result of the last such task of the list; the counts are
\* the numbers of tasks of each kind.
OrderFreeBulkResult ==
    LET keys == { args[i] : i \in Returned }
        lastOf(k) == CHOOSE j \in Returned :
                        /\ args[j] = k
                        /\ \A m \in Returned : args[m] = k => m <= j
        registered == { i \in Returned :
                          Get(result[i], "is_registered", FALSE) }
        failed == Raised \cup { i \in Returned : HasError(i) }
    IN  [results |-> [k \in keys |-> result[lastOf(k)]],
         summary |->
           [total_domains |-> Len(args),
            registered_domains |-> Cardinality(registered),
            available_domains |->
               Len(args) - Cardinality(registered) - Cardinality(failed),
            errors |-> Cardinality(failed),
            timestamp |-> Timestamp]]

\* C15: the bulk result does not depend on the order in which the tasks
\* complete: in every interleaving it is the same function of the input list
\* and of the outcome of each task, also when a domain occurs more than once.
C15_ResultIndependentOfCompletionOrder ==
    BulkReturned => out = OrderFreeBulkResult

\* C15: a domain was given twice with different outcomes, the task of the
\* first occurrence completed last, and results holds the outcome of the
\* second
C15_Witness ==
    /\ BulkReturned
    /\ \E i, j \in Returned :
          /\ i < j
          /\ args[i] = args[j]
          /\ result[i] # result[j]
          /\ lastDone = i
          /\ out.results[args[i]] = result[j]

RECURSIVE SumOf(_)
SumOf(ns) == IF Len(ns) = 0 THEN 0 ELSE Head(ns) + SumOf(Tail(ns))

\* the result of task i is the failure of the spawn itself: no process
SpawnFailed(i) ==
    /\ HasResult(i) /\ HasError(i)
    /\ StartsWith(result[i].error, InternalPrefix)
    /\ proc[i] = NoProcess

\* C16: a call of run_whois_command makes one attempt: a task spawns at most
\* one process, exactly one once it is past the spawn (none when the spawn
\* itself raised), it never comes back to the spawn after a timeout, a non-zero
\* exit or an exception, and a bulk lookup of N domains spawns at most N
\* processes.
C16_SingleAttempt ==
    /\ [](/\ \A i \in Tasks :
              /\ spawns[i] <= 1
              /\ spawns[i] = 1 <=> proc[i] # NoProcess
              /\ HasResult(i) => (spawns[i] = 1 <=> ~SpawnFailed(i))
          /\ SumOf(spawns) <= Len(args))
    /\ [][\A i \in Tasks :
            /\ SpawnsNow(i) =>
                  (spawns[i] = 0 /\ pc[i] = "spawning" /\ ~HasResult(i))
            /\ pc'[i] = "spawning" => pc[i] \in {"called", "waiting", "spawning"}
            /\ HasResult(i) => (spawns'[i] = spawns[i] /\ proc'[i] = proc[i])
         ]_vars

\* C16: a batch has returned after a timeout, a non-zero exit and a failed
\* spawn, with one process for each of the first two and none for the third
C16_Witness ==
    /\ BulkReturned
    /\ \E i, j, k \in Returned :
          /\ TimedOutTask(i) /\ spawns[i] = 1
          /\ proc[j].state = "exited" /\ proc[j].returncode > 0
          /\ HasError(j) /\ spawns[j] = 1
          /\ SpawnFailed(k) /\ spawns[k] = 0
    /\ SumOf(spawns) = 2

\* the process of task i ended by itself with a non-zero status
FailedExit(i) ==
    /\ proc[i].state = "exited"
    /\ proc[i].returncode > 0

\* the messages a non-zero exit with status rc may give in this run: the
\* trimmed text of the error stream, or "Unknown error" when none is left
FailureMessages(rc) ==
    { LET text == Strip(Decode(b.stderr))
      IN  IF text = <<>> THEN UnknownError ELSE text :
        b \in { w \in world : w.kind = "exit" /\ w.rc = rc } }

\* C17: after a non-zero exit run_whois_command returns an error result
\* whatever the process printed on its standard output, which is not parsed;
\* the error is "WHOIS command failed: " and the trimmed text of the error
\* stream, or "Unknown error" when that stream is empty or only whitespace.
C17_NonZeroExitIsError ==
    \A i \in Tasks :
        (FailedExit(i) /\ pc[i] = "returned") =>
            /\ ErrorShape(result[i])
            /\ DOMAIN result[i] = {"error", "query", "timestamp"}
            /\ StartsWith(result[i].error, FailedPrefix)
            /\ LET msg == SubSeq(result[i].error, Len(FailedPrefix) + 1,
                                 Len(result[i].error))
               IN  /\ msg \in FailureMessages(proc[i].returncode)
                   /\ msg # <<>>
                   /\ msg[1] \notin Whitespace
                   /\ msg[Len(msg)] \notin Whitespace

\* C17: the process printed a registration record and exited with status 3
\* and the text "e r" on its error stream, and the tool returned that error
C17_Witness ==
    /\ entry \in SingleTools
    /\ opc = "returned"
    /\ FailedExit(1) /\ proc[1].returncode = 3
    /\ \E b \in world : b.rc = 3 /\ b.stdout = RegisteredText
    /\ ErrorShape(out)
    /\ out.error = FailedPrefix \o <<"e", " ", "r">>

\* the tasks the loop counts as registered, and those it counts as errors
CountedRegistered ==
    { i \in Returned : Get(result[i], "is_registered", FALSE) }

CountedError == Raised \cup { i \in Returned : HasError(i) }

\* C18: no task is counted both as registered and as an error: an error
\* result never carries is_registered, a task that raised is counted in
\* errors only; so registered_domains + errors <= total_domains and
\* available_domains is never negative.
C18_RegisteredAndErrorsDisjoint ==
    /\ \A i \in Tasks :
          (HasResult(i) /\ HasError(i)) => "is_registered" \notin DOMAIN result[i]
    /\ BulkReturned =>
          LET sm == out.summary
          IN  /\ CountedRegistered \cap CountedError = {}
              /\ sm.registered_domains = Cardinality(CountedRegistered)
              /\ sm.errors = Cardinality(CountedError)
              /\ sm.registered_domains + sm.errors <= sm.total_domains
              /\ sm.available_domains >= 0

\* C18: a batch of a registered domain, a failed lookup and a task that
\* raised has returned: no domain is left to be available
C18_Witness ==
    /\ BulkReturned
    /\ Cardinality(CountedRegistered) = 1
    /\ Cardinality(Raised) = 1
    /\ Cardinality(CountedError) = 2
    /\ out.summary.total_domains = 3
    /\ out.summary.available_domains = 0

\* C19: slots never leak: the free slots and the tasks that hold a slot are
\* always 5 together, also after a task has raised inside the gate; all 5
\* slots are free when whois_domains returns; and while fewer than 5 tasks
\* hold a slot a waiting task can be admitted, whatever has raised before.
C19_SlotsNeverLeak ==
    entry = "whois_domains" =>
        /\ sem \in 0..SemaphoreCap
        /\ sem + Cardinality(InGateSet) = SemaphoreCap
        /\ BulkReturned => sem = SemaphoreCap
        /\ (\A i \in Tasks : Settled(i)) => sem = SemaphoreCap
        /\ Cardinality(InGateSet) < SemaphoreCap => sem > 0

\* C19: of more than 5 tasks one has raised, and the 5 others hold the 5
\* slots
C19_Witness ==
    /\ entry = "whois_domains"
    /\ Len(args) > SemaphoreCap
    /\ Raised # {}
    /\ Cardinality(InGateSet) = SemaphoreCap
    /\ sem = 0
    /\ \A i \in Tasks : pc[i] # "waiting"

\* the input strings of the tasks that did not raise
ReturnedInputs == { args[i] : i \in Returned }

\* the last place of the input k in the list
LastOccurrence(k) ==
    CHOOSE i \in Tasks : args[i] = k /\ \A j \in Tasks : args[j] = k => j <= i

PairwiseDistinct(seq) ==
    \A i, j \in 1..Len(seq) : seq[i] = seq[j] => i = j

\* C20: the counts of the summary are per task, results is per distinct
\* input string: it has one entry for each distinct input string of a task
\* that did not raise, so len(results) + raised tasks <= total_domains, with
\* equality when the input strings are pairwise distinct; for a repeated
\* input string the entry is the result of its last occurrence in the list.
C20_ResultsPerDistinctInput ==
    BulkReturned =>
        LET n == Cardinality(DOMAIN out.results)
        IN  /\ DOMAIN out.results = ReturnedInputs
            /\ n + Cardinality(Raised) <= out.summary.total_domains
            /\ PairwiseDistinct(args) =>
                  n + Cardinality(Raised) = out.summary.total_domains
            /\ \A k \in DOMAIN out.results :
                  /\ LastOccurrence(k) \in Returned
                  /\ out.results[k] = result[LastOccurrence(k)]

\* C20: a domain was given first and third with different outcomes and the
\* second task raised: results has the one entry of the third task
C20_Witness ==
    /\ BulkReturned
    /\ Len(args) = 3
    /\ args[1] = args[3]
    /\ Raised = {2}
    /\ result[1] # result[3]
    /\ Cardinality(DOMAIN out.results) = 1
    /\ out.results[args[3]] = result[3]

====
